---- MODULE Spec2Model ----
(***************************************************************************)
(* cfddns: a dynamic-DNS updater.  The model follows src/src/main.rs: the  *)
(* address resolver (query_ip_providers), its retry wrapper, the dual      *)
(* stack discovery, the record cache (known_dns_ids) and the               *)
(* reconciliation loop of main.  Every network call is an input chosen by  *)
(* the environment.                                                        *)
(***************************************************************************)
EXTENDS Naturals, Sequences, FiniteSets, TLC

VARIABLES
    pc,             \* position of main: "zone", "inventory", "loop", "query_v4",
                    \* "query_v6", "decide", "update", "finish", "aborted"
    inv_next,       \* index of the subdomain the startup inventory lists next
    known_dns_ids,  \* the record cache: (full name, record type) -> id or None
    ipv4_cache,     \* last known IPv4 address
    ipv6_cache,     \* last known IPv6 address
    ipv4,           \* this cycle's discovered IPv4 address
    ipv6,           \* this cycle's discovered IPv6 address
    attempt,        \* resolver invocations made by the running query_with_retries
    obs,            \* per family: what the resolver invocation that decided this
                    \* cycle's result saw
    update_v4,      \* this cycle's IPv4 dirty flag
    update_v6,      \* this cycle's IPv6 dirty flag
    next_sub,       \* index of the subdomain the update loop visits next (0: none)
    cycle_failed,   \* this cycle's failure flag
    failure_count,  \* consecutive failed cycles
    calls,          \* provider write calls issued in this cycle, in order
    slept,          \* seconds of the last end-of-cycle sleep (0: none yet)
    last_known,     \* the last known addresses as the cycle's comparison found them
    failures_at_start, \* failure_count as the cycle found it
    q_resp,         \* resolver on its own: the answers of the endpoints, in list order
    q_result,       \* resolver on its own: what query_ip_providers returned
    r_script,       \* discovery on its own: per family, how the endpoints will behave
    r_log,          \* discovery on its own: the resolver invocations of the running
                    \* (or last returned) query_with_retries, in order
    r_ret,          \* discovery on its own: what the last query_with_retries returned
    startup_log     \* startup on watch: the names whose listing failed, and for the
                    \* keys of those names the kind of the first write issued

vars == <<pc, inv_next, known_dns_ids, ipv4_cache, ipv6_cache, ipv4, ipv6, attempt,
          obs, update_v4, update_v6, next_sub, cycle_failed, failure_count, calls, slept,
          last_known, failures_at_start, q_resp, q_result, r_script, r_log, r_ret,
          startup_log>>

probe_vars == <<q_resp, q_result, r_script, r_log, r_ret>>

None == "None"

(***************************************************************************)
(* Program constants                                                       *)
(***************************************************************************)
ttl == 600
sleep_time == 600
retries == 5
max_failures == 5
min_agreement == 2

IPV4_SERVICES == <<"https://api.ipify.org", "https://ipv4.icanhazip.com", "https://v4.ident.me">>
IPV6_SERVICES == <<"https://api64.ipify.org", "https://ipv6.icanhazip.com", "https://v6.ident.me">>

(***************************************************************************)
(* Bounds of the model                                                     *)
(***************************************************************************)
\* failure_count is unbounded in the program; a failed cycle cannot end beyond this.
MaxFailureCount == 6

(***************************************************************************)
(* Configuration (the environment variables DOMAIN and SUBDOMAINS)         *)
(***************************************************************************)
domain == "example.com"
\* the managed subdomains, in the iteration order of the HashSet (fixed for a run;
\* nothing below depends on which name comes first)
subdomains == <<"home", "office">>

FullDomain(subdomain) == subdomain \o "." \o domain

RecordTypes == {"A", "AAAA"}
FullDomains == {FullDomain(subdomains[i]) : i \in 1..Len(subdomains)}
Keys == FullDomains \X RecordTypes

(***************************************************************************)
(* Addresses: std::net::IpAddr, a family tag with the canonical text.      *)
(***************************************************************************)
V4(t) == [ver |-> 4, text |-> t]
V6(t) == [ver |-> 6, text |-> t]
\* Option<IpAddr>::None
NoAddr == [ver |-> 0, text |-> "none"]
IpAddrs == {V4("203.0.113.5"), V4("203.0.113.6"), V6("2001:db8::1"), V6("2001:db8::2")}

\* the bodies an endpoint can answer with
Bodies == {"203.0.113.5", "203.0.113.6\n", "2001:db8::1", " 2001:DB8:0::2", "<html>"}
\* an endpoint's answer: the request fails, the body cannot be read, or a body
Responses == {"send_err", "text_err"} \cup Bodies

\* The answers of the three IPv4 endpoints in one attempt, as the loop draws them:
\* agreement on either address (one with a trailing newline), a disagreement at
\* the second and at the third parsable answer, two agreeing answers only, and
\* no usable answer.
V4Answers ==
    {<<"203.0.113.5", "203.0.113.5", "203.0.113.5">>,
     <<"203.0.113.6\n", "203.0.113.6\n", "203.0.113.6\n">>,
     <<"203.0.113.5", "203.0.113.6\n", "203.0.113.5">>,
     <<"203.0.113.5", "<html>", "203.0.113.6\n">>,
     <<"203.0.113.5", "send_err", "203.0.113.5">>,
     <<"send_err", "text_err", "<html>">>}

\* The same for the three IPv6 endpoints, which agree on one address only.
V6Answers ==
    {<<"2001:db8::1", "2001:db8::1", "2001:db8::1">>,
     <<"2001:db8::1", " 2001:DB8:0::2", "2001:db8::1">>,
     <<"text_err", "2001:db8::1", " 2001:DB8:0::2">>,
     <<"2001:db8::1", "2001:db8::1", "text_err">>,
     <<"send_err", "send_err", "send_err">>}

\* str::trim
Trim(text) ==
    CASE text = "203.0.113.6\n" -> "203.0.113.6"
      [] text = " 2001:DB8:0::2" -> "2001:DB8:0::2"
      [] OTHER -> text

\* str::parse::<IpAddr>: the address, or NoAddr for a parse error
ParseIp(text) ==
    CASE text = "203.0.113.5" -> V4("203.0.113.5")
      [] text = "203.0.113.6" -> V4("203.0.113.6")
      [] text = "2001:db8::1" -> V6("2001:db8::1")
      [] text = "2001:DB8:0::2" -> V6("2001:db8::2")
      [] OTHER -> NoAddr

(***************************************************************************)
(* query_ip_providers: one resolution attempt over the answers of the      *)
(* endpoints, in list order.                                               *)
(***************************************************************************)
QOk(ip, n) ==
    [tag |-> "Ok", ip |-> ip, first |-> NoAddr, conflict |-> NoAddr, queried |-> n]
\* (the error, had it named the two addresses the other way round)
QMismatchSwapped(first, conflict, n) ==
    [tag |-> "ConsensusMismatch", ip |-> NoAddr, first |-> conflict, conflict |-> first,
     queried |-> n]
QMismatch(first, conflict, n) ==
    [tag |-> "ConsensusMismatch", ip |-> NoAddr, first |-> first, conflict |-> conflict,
     queried |-> n]
QNoIp(n) ==
    [tag |-> "NoIpAvailable", ip |-> NoAddr, first |-> NoAddr, conflict |-> NoAddr,
     queried |-> n]

\* the answer of endpoint i as the loop body sees it: an address, or NoAddr (continue)
NewIp(r) == IF r \in {"send_err", "text_err"} THEN NoAddr ELSE ParseIp(Trim(r))

\* the check after the loop
\* (the check, had it asked for one agreeing endpoint more)
QueryFinishOneMore(addr, n_agreement, n) ==
    IF addr # NoAddr /\ n_agreement > min_agreement + 1 THEN QOk(addr, n) ELSE QNoIp(n)
\* (the check, had it accepted min_agreement agreeing endpoints)
QueryFinishAtMin(addr, n_agreement, n) ==
    IF addr # NoAddr /\ n_agreement >= min_agreement THEN QOk(addr, n) ELSE QNoIp(n)
QueryFinish(addr, n_agreement, n) ==
    IF addr # NoAddr /\ n_agreement > min_agreement THEN QOk(addr, n) ELSE QNoIp(n)

\* the loop over the endpoints, had it skipped a conflicting answer
RECURSIVE QueryLoopSkipsConflict(_, _, _, _)
QueryLoopSkipsConflict(resp, i, addr, n_agreement) ==
    IF i > Len(resp)
    THEN QueryFinish(addr, n_agreement, Len(resp))
    ELSE LET new_ip == NewIp(resp[i])
         IN  IF new_ip = NoAddr \/ (addr # NoAddr /\ addr # new_ip)
             THEN QueryLoopSkipsConflict(resp, i + 1, addr, n_agreement)
             ELSE QueryLoopSkipsConflict(resp, i + 1, new_ip, n_agreement + 1)

\* the loop, had it queried every endpoint before reporting a conflict
RECURSIVE QueryLoopQueriesAll(_, _, _, _)
QueryLoopQueriesAll(resp, i, addr, n_agreement) ==
    IF i > Len(resp)
    THEN QueryFinish(addr, n_agreement, Len(resp))
    ELSE LET new_ip == NewIp(resp[i])
         IN  IF new_ip = NoAddr
             THEN QueryLoopQueriesAll(resp, i + 1, addr, n_agreement)
             ELSE IF addr # NoAddr
                  THEN IF addr # new_ip
                       THEN QMismatch(addr, new_ip, Len(resp))
                       ELSE QueryLoopQueriesAll(resp, i + 1, addr, n_agreement + 1)
                  ELSE QueryLoopQueriesAll(resp, i + 1, new_ip, n_agreement + 1)

RECURSIVE QueryLoop(_, _, _, _)
QueryLoop(resp, i, addr, n_agreement) ==
    IF i > Len(resp)
    THEN QueryFinish(addr, n_agreement, Len(resp))
    ELSE LET new_ip == NewIp(resp[i])
         IN  IF new_ip = NoAddr
             THEN QueryLoop(resp, i + 1, addr, n_agreement)
             ELSE IF addr # NoAddr
                  THEN IF addr # new_ip
                       THEN QMismatch(addr, new_ip, i)
                       ELSE QueryLoop(resp, i + 1, addr, n_agreement + 1)
                  ELSE QueryLoop(resp, i + 1, new_ip, n_agreement + 1)

query_ip_providers(resp) == QueryLoop(resp, 1, NoAddr, 0)

\* get_supported_public_ips: the and_then filters on the family of the result
OnlyV4(ip) == IF ip.ver = 4 THEN ip ELSE NoAddr
OnlyV6(ip) == IF ip.ver = 6 THEN ip ELSE NoAddr

\* what the endpoints of one attempt answered: two parsable answers differ
Disagree(resp) ==
    \E i, j \in 1..Len(resp) :
        /\ NewIp(resp[i]) # NoAddr
        /\ NewIp(resp[j]) # NoAddr
        /\ NewIp(resp[i]) # NewIp(resp[j])

NoObs == [tag |-> None, disagree |-> FALSE]
Observe(resp, res) == [tag |-> res.tag, disagree |-> Disagree(resp)]

(***************************************************************************)
(* The DNS provider gateway                                                *)
(***************************************************************************)
\* generate_dns_record: the write payload
\* (the payload, had it enabled the proxy)
generate_dns_record_proxied(ip, full_name, t) ==
    [record_type |-> IF ip.ver = 4 THEN "A" ELSE "AAAA", name |-> full_name,
     content |-> ip.text, ttl |-> t, proxied |-> TRUE]
generate_dns_record(ip, full_name, t) ==
    IF ip.ver = 4
    THEN [record_type |-> "A", name |-> full_name, content |-> ip.text, ttl |-> t,
          proxied |-> FALSE]
    ELSE [record_type |-> "AAAA", name |-> full_name, content |-> ip.text, ttl |-> t,
          proxied |-> FALSE]

\* What the provider answers to a write: the request fails ("conn"), the body is
\* not JSON ("nojson"), or a JSON body with a "success" field ("true", "false",
\* "missing") and a "result" holding a record with an id (or None: no usable result).
HttpReplies(ids) ==
    {[t |-> "conn", success |-> "missing", id |-> None],
     [t |-> "nojson", success |-> "missing", id |-> None],
     [t |-> "json", success |-> "missing", id |-> None],
     [t |-> "json", success |-> "false", id |-> None]}
    \cup [t : {"json"}, success : {"true"}, id : ids \cup {None}]

\* the id the provider gives the record of a key, in the runs of the loop
RecordId(key) == key[1] \o "/" \o key[2]

Err == [ok |-> FALSE, val |-> None]
Ok(v) == [ok |-> TRUE, val |-> v]

\* cloudflare_create_new_dns_record: Ok(id) or Err
cloudflare_create_new_dns_record(reply) ==
    IF reply.t # "json" THEN Err
    ELSE IF reply.success = "missing" THEN Err
    ELSE IF reply.success = "false" THEN Err
    ELSE IF reply.id = None THEN Err
    ELSE Ok(reply.id)

\* cloudflare_update_dns_record: Ok(success) or Err
cloudflare_update_dns_record(reply) ==
    IF reply.t # "json" THEN Err
    ELSE IF reply.success = "missing" THEN Err
    ELSE Ok(reply.success = "true")

\* update_or_create_record: (success, new_id)
\* (the pair, had the update path handed back the id of the provider's reply)
update_or_create_record_with_id(record_id, reply) ==
    IF record_id # None
    THEN LET result == cloudflare_update_dns_record(reply)
         IN  IF result.ok THEN [success |-> result.val, new_id |-> reply.id]
             ELSE [success |-> FALSE, new_id |-> None]
    ELSE LET result == cloudflare_create_new_dns_record(reply)
         IN  IF result.ok THEN [success |-> TRUE, new_id |-> result.val]
             ELSE [success |-> FALSE, new_id |-> None]
update_or_create_record(record_id, reply) ==
    IF record_id # None
    THEN LET result == cloudflare_update_dns_record(reply)
         IN  IF result.ok THEN [success |-> result.val, new_id |-> None]
             ELSE [success |-> FALSE, new_id |-> None]
    ELSE LET result == cloudflare_create_new_dns_record(reply)
         IN  IF result.ok THEN [success |-> TRUE, new_id |-> result.val]
             ELSE [success |-> FALSE, new_id |-> None]

\* update_dns_record, the cache part: known_ids.insert(key, id) when a new id came back
\* (the cache, had the new id been dropped)
CacheInsertNever(known_ids, key, new_id) == known_ids
CacheInsert(known_ids, key, new_id) ==
    IF new_id # None THEN [known_ids EXCEPT ![key] = new_id] ELSE known_ids

\* the provider call update_dns_record issues, as the log keeps it
CallRecord(known_ids, full_domain, ip, record_type, reply) ==
    LET key == <<full_domain, record_type>>
        record_id == known_ids[key]
        out == update_or_create_record(record_id, reply)
        payload == generate_dns_record(ip, full_domain, ttl)
    IN  [op |-> IF record_id # None THEN "update" ELSE "create",
         key |-> key,
         record_id |-> record_id,
         payload |-> payload,
         success |-> out.success,
         new_id |-> out.new_id]

\* update_dns_record: the cache after the call
update_dns_record(known_ids, full_domain, ip, record_type, reply) ==
    LET c == CallRecord(known_ids, full_domain, ip, record_type, reply)
    IN  CacheInsert(known_ids, c.key, c.new_id)

(***************************************************************************)
(* The reconciliation loop's decisions                                     *)
(***************************************************************************)
\* the dirty flag of one family: the cache differs and the new value is present
\* (the flag, had the comparison with the cache been left out)
DirtyIgnoresCache(cache, new) == new # NoAddr
Dirty(cache, new) == IF cache # new THEN new # NoAddr ELSE FALSE

\* the cache of one family after the comparison
\* (the cache, had it kept the last address when none is discovered)
CacheAfterKeepsAddress(cache, new) == IF new # NoAddr THEN new ELSE cache
CacheAfter(cache, new) == IF cache # new THEN new ELSE cache

\* the first branch of the cycle: no address of either family is known
\* (the test, had it asked for an IPv6 address to be known)
BothAbsentV4Only(cache4, cache6) == cache4 = NoAddr /\ cache6 # NoAddr
BothAbsent(cache4, cache6) == cache4 = NoAddr /\ cache6 = NoAddr

\* the failure counter at the end of a cycle
\* (the counter, had a successful cycle left it alone)
NextFailureCountNoReset(failed, count) == IF failed THEN count + 1 ELSE count
NextFailureCount(failed, count) == IF failed THEN count + 1 ELSE 0

\* the seconds slept at the end of a cycle
\* (the sleep, had the comparison been >=)
SleepSecondsAtMax(count) == IF count >= max_failures THEN sleep_time * 5 ELSE sleep_time
SleepSeconds(count) == IF count > max_failures THEN sleep_time * 5 ELSE sleep_time

(***************************************************************************)
(* query_with_retries and get_supported_public_ips                         *)
(***************************************************************************)
\* the loop `for _ in 0..retries` goes on after the failed invocation number n + 1
\* (the test, had it allowed one invocation fewer)
RetryAgainOneFewer(n) == n + 2 < retries
\* (the test, had it allowed one invocation more)
RetryAgainOneMore(n) == n < retries
RetryAgain(n) == n + 1 < retries

\* the loop counter of a call of query_with_retries starts at 0, whatever the
\* call before it counted
\* (the counter, had the two calls of get_supported_public_ips shared it)
FirstAttemptCarried(previous) == previous + 1
FirstAttempt(previous) == 0

\* the endpoint list query_with_retries hands to invocation n + 1 of the resolver
ProvidersFor(providers, n) == providers

\* how the endpoints of one family behave during one call of query_with_retries:
\* the first `fails` invocations of the resolver fail, every later one sees the
\* answers `last`.  NoScript: the endpoints answer as they like.
NoScript == [fails |-> 0, last |-> <<>>]
Scripted(family) == r_script[family].last # <<>>

\* the answers the endpoints of a family can give to invocation n + 1
Endpoints(family, answers, n) ==
    IF ~Scripted(family) THEN answers
    ELSE IF n < r_script[family].fails
    THEN {resp \in answers : query_ip_providers(resp).tag # "Ok"}
    ELSE {r_script[family].last}

\* the record of one invocation of the resolver
Invocation(providers, result) == [providers |-> providers, tag |-> result.tag]
LogAfter(family, n, providers, result) ==
    IF ~Scripted(family) THEN r_log
    ELSE IF n = 0 THEN <<Invocation(providers, result)>>
    ELSE Append(r_log, Invocation(providers, result))
RetAfter(family, ret) == IF Scripted(family) THEN ret ELSE r_ret

\* no resolver result yet
NoResult ==
    [tag |-> None, ip |-> NoAddr, first |-> NoAddr, conflict |-> NoAddr, queried |-> 0]

\* the variables of the specifications of the resolver and of the discovery, at rest
ProbeIdle ==
    /\ q_resp = <<>>
    /\ q_result = NoResult
    /\ r_script = [f \in {4, 6} |-> NoScript]
    /\ r_log = <<>>
    /\ r_ret = NoAddr

\* the watch on the startup, off and on
NoWatch == [on |-> FALSE, failed |-> {}, first_op |-> [k \in Keys |-> None]]
Watch == [on |-> TRUE, failed |-> {}, first_op |-> [k \in Keys |-> None]]

\* the log after the listing of one name
LogList(full_domain, result) ==
    IF startup_log.on /\ ~result.ok
    THEN [startup_log EXCEPT !.failed = @ \cup {full_domain}]
    ELSE startup_log

\* the log after the calls of one iteration of the update loop
LogCalls(cs) ==
    IF ~startup_log.on THEN startup_log
    ELSE [startup_log EXCEPT !.first_op =
             [k \in Keys |->
                 IF /\ @[k] = None
                    /\ k[1] \in startup_log.failed
                    /\ \E i \in 1..Len(cs) : cs[i].key = k
                 THEN cs[CHOOSE i \in 1..Len(cs) : cs[i].key = k].op
                 ELSE @[k]]]

(***************************************************************************)
(* Startup                                                                 *)
(***************************************************************************)
Init ==
    /\ pc = "zone"
    /\ inv_next = 1
    /\ known_dns_ids = [k \in Keys |-> None]
    /\ ipv4_cache = NoAddr
    /\ ipv6_cache = NoAddr
    /\ ipv4 = NoAddr
    /\ ipv6 = NoAddr
    /\ attempt = 0
    /\ obs = [f \in {4, 6} |-> NoObs]
    /\ update_v4 = FALSE
    /\ update_v6 = FALSE
    /\ next_sub = 0
    /\ cycle_failed = FALSE
    /\ failure_count = 0
    /\ calls = <<>>
    /\ slept = 0
    /\ last_known = <<NoAddr, NoAddr>>
    /\ failures_at_start = 0
    /\ ProbeIdle
    /\ startup_log = NoWatch

loop_vars_but_calls ==
    <<ipv4_cache, ipv6_cache, ipv4, ipv6, attempt, obs, update_v4, update_v6, next_sub,
      cycle_failed, failure_count, slept, last_known, failures_at_start>>

loop_vars == <<ipv4_cache, ipv6_cache, ipv4, ipv6, attempt, obs, update_v4, update_v6,
               next_sub, cycle_failed, failure_count, calls, slept, last_known,
               failures_at_start>>

\* cloudflare_get_zone_id at startup: an error panics
GetZoneId ==
    /\ pc = "zone"
    /\ \E ok \in BOOLEAN : pc' = IF ok THEN "inventory" ELSE "aborted"
    /\ UNCHANGED <<inv_next, known_dns_ids, loop_vars>>
    /\ UNCHANGED probe_vars
    /\ UNCHANGED startup_log

\* what cloudflare_get_dns_record_id returns for one name: Err, or the records of
\* that name; a function from the record type to the id cached for it (None: no
\* record of that type).  The provider lists the A and AAAA records only, each
\* under the id it gives that record.
ListResults(full_domain) ==
    {Err} \cup
    {Ok(recs) : recs \in {r \in [RecordTypes -> {RecordId(k) : k \in Keys} \cup {None}] :
                    \A t \in RecordTypes : r[t] \in {None, RecordId(<<full_domain, t>>)}}}

InventoryInsert(known_ids, full_domain, result) ==
    IF result.ok
    THEN [k \in Keys |->
            IF k[1] = full_domain /\ result.val[k[2]] # None
            THEN result.val[k[2]] ELSE known_ids[k]]
    ELSE known_ids

\* where main goes after the listing of one name: on with the inventory or to
\* the loop, whatever the listing returned
\* (the position, had main unwrapped the result of the listing)
AfterListUnwraps(next, result) ==
    IF ~result.ok THEN "aborted"
    ELSE IF next > Len(subdomains) THEN "loop" ELSE "inventory"
AfterList(next, result) == IF next > Len(subdomains) THEN "loop" ELSE "inventory"

\* one iteration of the startup inventory loop
Inventory ==
    /\ pc = "inventory"
    /\ \E result \in ListResults(FullDomain(subdomains[inv_next])) :
        /\ known_dns_ids' =
               InventoryInsert(known_dns_ids, FullDomain(subdomains[inv_next]), result)
        /\ inv_next' = inv_next + 1
        /\ pc' = AfterList(inv_next', result)
        /\ startup_log' = LogList(FullDomain(subdomains[inv_next]), result)
    /\ UNCHANGED loop_vars
    /\ UNCHANGED probe_vars

(***************************************************************************)
(* The loop                                                                *)
(***************************************************************************)
\* top of the loop: "Beginning cycle."
BeginCycle ==
    /\ pc = "loop"
    /\ pc' = "query_v4"
    /\ cycle_failed' = FALSE
    /\ calls' = <<>>
    /\ obs' = [f \in {4, 6} |-> NoObs]
    /\ attempt' = 0
    /\ update_v4' = FALSE
    /\ update_v6' = FALSE
    /\ ipv4' = NoAddr
    /\ ipv6' = NoAddr
    /\ last_known' = <<NoAddr, NoAddr>>
    /\ failures_at_start' = failure_count
    /\ UNCHANGED <<inv_next, known_dns_ids, ipv4_cache, ipv6_cache, next_sub, failure_count,
                   slept>>
    /\ UNCHANGED probe_vars
    /\ UNCHANGED startup_log

\* one iteration of query_with_retries for the IPv4 endpoints
QueryV4 ==
    /\ pc = "query_v4"
    /\ \E resp \in Endpoints(4, V4Answers, attempt) :
        LET providers == ProvidersFor(IPV4_SERVICES, attempt)
            result == query_ip_providers(resp)
        IN  /\ r_log' = LogAfter(4, attempt, providers, result)
            /\ IF result.tag = "Ok"
               THEN /\ ipv4' = OnlyV4(result.ip)
                    /\ obs' = [obs EXCEPT ![4] = Observe(resp, result)]
                    /\ attempt' = FirstAttempt(attempt)
                    /\ r_ret' = RetAfter(4, result.ip)
                    /\ pc' = "query_v6"
               ELSE IF RetryAgain(attempt)
               THEN /\ attempt' = attempt + 1
                    /\ UNCHANGED <<ipv4, obs, pc, r_ret>>
               ELSE /\ ipv4' = NoAddr
                    /\ obs' = [obs EXCEPT ![4] = Observe(resp, result)]
                    /\ attempt' = FirstAttempt(attempt)
                    /\ r_ret' = RetAfter(4, NoAddr)
                    /\ pc' = "query_v6"
    /\ UNCHANGED <<inv_next, known_dns_ids, ipv4_cache, ipv6_cache, ipv6, update_v4,
                   update_v6, next_sub, cycle_failed, failure_count, calls, slept,
                   last_known, failures_at_start, q_resp, q_result, r_script,
                   startup_log>>

\* one iteration of query_with_retries for the IPv6 endpoints
QueryV6 ==
    /\ pc = "query_v6"
    /\ \E resp \in Endpoints(6, V6Answers, attempt) :
        LET providers == ProvidersFor(IPV6_SERVICES, attempt)
            result == query_ip_providers(resp)
        IN  /\ r_log' = LogAfter(6, attempt, providers, result)
            /\ IF result.tag = "Ok"
               THEN /\ ipv6' = OnlyV6(result.ip)
                    /\ obs' = [obs EXCEPT ![6] = Observe(resp, result)]
                    /\ attempt' = FirstAttempt(attempt)
                    /\ r_ret' = RetAfter(6, result.ip)
                    /\ pc' = "decide"
               ELSE IF RetryAgain(attempt)
               THEN /\ attempt' = attempt + 1
                    /\ UNCHANGED <<ipv6, obs, pc, r_ret>>
               ELSE /\ ipv6' = NoAddr
                    /\ obs' = [obs EXCEPT ![6] = Observe(resp, result)]
                    /\ attempt' = FirstAttempt(attempt)
                    /\ r_ret' = RetAfter(6, NoAddr)
                    /\ pc' = "decide"
    /\ UNCHANGED <<inv_next, known_dns_ids, ipv4_cache, ipv6_cache, ipv4, update_v4,
                   update_v6, next_sub, cycle_failed, failure_count, calls, slept,
                   last_known, failures_at_start, q_resp, q_result, r_script,
                   startup_log>>

\* the comparison with the last known addresses and the choice of the branch
Decide ==
    /\ pc = "decide"
    /\ update_v4' = Dirty(ipv4_cache, ipv4)
    /\ ipv4_cache' = CacheAfter(ipv4_cache, ipv4)
    /\ update_v6' = Dirty(ipv6_cache, ipv6)
    /\ ipv6_cache' = CacheAfter(ipv6_cache, ipv6)
    /\ IF BothAbsent(ipv4_cache', ipv6_cache')
       THEN /\ cycle_failed' = TRUE
            /\ next_sub' = 0
            /\ pc' = "finish"
       ELSE IF ~update_v4' /\ ~update_v6'
       THEN /\ cycle_failed' = FALSE
            /\ next_sub' = 0
            /\ pc' = "finish"
       ELSE /\ cycle_failed' = cycle_failed
            /\ next_sub' = 1
            /\ pc' = IF Len(subdomains) = 0 THEN "finish" ELSE "update"
    /\ last_known' = <<ipv4_cache, ipv6_cache>>
    /\ UNCHANGED <<inv_next, known_dns_ids, ipv4, ipv6, attempt, obs, failure_count,
                   calls, slept, failures_at_start>>
    /\ UNCHANGED probe_vars
    /\ UNCHANGED startup_log

\* the guards of the two writes of one iteration of the update loop
\* (the IPv4 guard, had it left out update_v4)
WritesV4Always(cache, update) == cache # NoAddr
WritesV4(cache, update) == cache # NoAddr /\ update
WritesV6(cache, update) == cache # NoAddr /\ update

\* the replies the provider can give to a write of one iteration (none when the
\* write is not issued)
NoReply == [t |-> "none", success |-> "missing", id |-> None]
RepliesFor(issued, key) == IF issued THEN HttpReplies({RecordId(key)}) ELSE {NoReply}

\* cycle_failed after the calls of one iteration
\* (the flag, had each call overwritten it with its own result)
FailedAfterLastOnly(failed, cs) == IF cs = <<>> THEN failed ELSE ~cs[Len(cs)].success
FailedAfter(failed, cs) == failed \/ \E i \in 1..Len(cs) : ~cs[i].success

\* where main goes after one iteration of the update loop: on with the loop or
\* to the failure counter, whatever the calls of the iteration returned
\* (the position, had main unwrapped the result of a call)
AfterIterationUnwraps(next, cs) ==
    IF \E i \in 1..Len(cs) : ~cs[i].success THEN "aborted"
    ELSE IF next = 0 THEN "finish" ELSE "update"
AfterIteration(next, cs) == IF next = 0 THEN "finish" ELSE "update"

\* one iteration of the update loop: the A write, then the AAAA write
UpdateSubdomain ==
    /\ pc = "update"
    /\ LET full_domain == FullDomain(subdomains[next_sub])
           v4 == WritesV4(ipv4_cache, update_v4)
           v6 == WritesV6(ipv6_cache, update_v6)
       IN  \E reply4 \in RepliesFor(v4, <<full_domain, "A">>),
              reply6 \in RepliesFor(v6, <<full_domain, "AAAA">>) :
            LET c4 == IF v4
                      THEN <<CallRecord(known_dns_ids, full_domain, ipv4_cache, "A", reply4)>>
                      ELSE <<>>
                known4 == IF v4
                          THEN update_dns_record(known_dns_ids, full_domain, ipv4_cache,
                                                 "A", reply4)
                          ELSE known_dns_ids
                c6 == IF v6
                      THEN <<CallRecord(known4, full_domain, ipv6_cache, "AAAA", reply6)>>
                      ELSE <<>>
                known6 == IF v6
                          THEN update_dns_record(known4, full_domain, ipv6_cache, "AAAA",
                                                 reply6)
                          ELSE known4
            IN  /\ known_dns_ids' = known6
                /\ calls' = calls \o c4 \o c6
                /\ cycle_failed' = FailedAfter(cycle_failed, c4 \o c6)
                /\ next_sub' = IF next_sub < Len(subdomains) THEN next_sub + 1 ELSE 0
                /\ pc' = AfterIteration(next_sub', c4 \o c6)
                /\ startup_log' = LogCalls(c4 \o c6)
    /\ UNCHANGED <<inv_next, ipv4_cache, ipv6_cache, ipv4, ipv6, attempt, obs,
                   update_v4, update_v6, failure_count, slept, last_known,
                   failures_at_start>>
    /\ UNCHANGED probe_vars

\* the failure counter and the sleep that end a cycle
Finish ==
    /\ pc = "finish"
    /\ NextFailureCount(cycle_failed, failure_count) <= MaxFailureCount
    /\ failure_count' = NextFailureCount(cycle_failed, failure_count)
    /\ slept' = SleepSeconds(failure_count')
    /\ pc' = "loop"
    /\ UNCHANGED <<inv_next, known_dns_ids, ipv4_cache, ipv6_cache, ipv4, ipv6, attempt,
                   obs, update_v4, update_v6, next_sub, cycle_failed, calls, last_known,
                   failures_at_start>>
    /\ UNCHANGED probe_vars
    /\ UNCHANGED startup_log

Next ==
    \/ GetZoneId
    \/ Inventory
    \/ BeginCycle
    \/ QueryV4
    \/ QueryV6
    \/ Decide
    \/ UpdateSubdomain
    \/ Finish

Spec == Init /\ [][Next]_vars

(***************************************************************************)
(* update_dns_record on its own: any starting cache, then calls for any    *)
(* managed name and family with any reply of the provider.                 *)
(***************************************************************************)
\* the calls one run of this specification makes
MaxCalls == 2
CacheIds == {"rec1", "rec2"}
CallIps == {<<V4("203.0.113.5"), "A">>, <<V6("2001:db8::1"), "AAAA">>}

CacheInit ==
    /\ pc = "calls"
    /\ known_dns_ids \in [Keys -> CacheIds \cup {None}]
    /\ inv_next = Len(subdomains) + 1
    /\ ipv4_cache = NoAddr
    /\ ipv6_cache = NoAddr
    /\ ipv4 = NoAddr
    /\ ipv6 = NoAddr
    /\ attempt = 0
    /\ obs = [f \in {4, 6} |-> NoObs]
    /\ update_v4 = FALSE
    /\ update_v6 = FALSE
    /\ next_sub = 0
    /\ cycle_failed = FALSE
    /\ failure_count = 0
    /\ calls = <<>>
    /\ slept = 0
    /\ last_known = <<NoAddr, NoAddr>>
    /\ failures_at_start = 0
    /\ ProbeIdle
    /\ startup_log = NoWatch

CacheCall ==
    /\ pc = "calls"
    /\ Len(calls) < MaxCalls
    /\ \E full_domain \in FullDomains, ip \in CallIps, reply \in HttpReplies(CacheIds) :
        /\ known_dns_ids' =
               update_dns_record(known_dns_ids, full_domain, ip[1], ip[2], reply)
        /\ calls' =
               Append(calls, CallRecord(known_dns_ids, full_domain, ip[1], ip[2], reply))
    /\ UNCHANGED <<pc, inv_next, loop_vars_but_calls>>
    /\ UNCHANGED probe_vars
    /\ UNCHANGED startup_log

CacheNext == CacheCall

CacheSpec == CacheInit /\ [][CacheNext]_vars

(***************************************************************************)
(* query_ip_providers on its own: any list of up to MaxEndpoints           *)
(* endpoints, each answering in any way, and one resolution attempt.       *)
(***************************************************************************)
\* the longest endpoint list
MaxEndpoints == 4

\* main's variables, at rest while a function is exercised on its own
MainIdle ==
    /\ inv_next = Len(subdomains) + 1
    /\ known_dns_ids = [k \in Keys |-> None]
    /\ ipv4_cache = NoAddr
    /\ ipv6_cache = NoAddr
    /\ ipv4 = NoAddr
    /\ ipv6 = NoAddr
    /\ attempt = 0
    /\ obs = [f \in {4, 6} |-> NoObs]
    /\ update_v4 = FALSE
    /\ update_v6 = FALSE
    /\ next_sub = 0
    /\ cycle_failed = FALSE
    /\ failure_count = 0
    /\ calls = <<>>
    /\ slept = 0
    /\ last_known = <<NoAddr, NoAddr>>
    /\ failures_at_start = 0
    /\ startup_log = NoWatch

ResolverInit ==
    /\ pc = "resolve"
    /\ MainIdle
    /\ q_resp \in UNION {[1..n -> Responses] : n \in 0..MaxEndpoints}
    /\ q_result = NoResult
    /\ r_script = [f \in {4, 6} |-> NoScript]
    /\ r_log = <<>>
    /\ r_ret = NoAddr

\* one call of query_ip_providers
Resolve ==
    /\ pc = "resolve"
    /\ q_result' = query_ip_providers(q_resp)
    /\ pc' = "resolved"
    /\ UNCHANGED <<inv_next, known_dns_ids, loop_vars, q_resp, r_script, r_log, r_ret,
                   startup_log>>

ResolverNext == Resolve

ResolverSpec == ResolverInit /\ [][ResolverNext]_vars

(***************************************************************************)
(* get_supported_public_ips on its own: for each family the resolver fails *)
(* a chosen number of times (by disagreement or for want of answers, as    *)
(* the endpoints like) and then sees agreeing answers.                     *)
(***************************************************************************)
\* the most failures in a row of the resolver
MaxFails == 6

\* the answers of three endpoints that make an attempt succeed; the endpoints of
\* either family may agree on an address of the other family
Agreeing == {resp \in V4Answers \cup V6Answers : query_ip_providers(resp).tag = "Ok"}
Scripts == {[fails |-> k, last |-> resp] : k \in 0..MaxFails, resp \in Agreeing}

DiscoveryInit ==
    /\ pc = "query_v4"
    /\ MainIdle
    /\ q_resp = <<>>
    /\ q_result = NoResult
    /\ r_script \in [{4, 6} -> Scripts]
    /\ r_log = <<>>
    /\ r_ret = NoAddr

DiscoveryNext ==
    \/ QueryV4
    \/ QueryV6

DiscoverySpec == DiscoveryInit /\ [][DiscoveryNext]_vars

(***************************************************************************)
(* main with a watch on its startup: which listings failed, and how the    *)
(* keys of those names are first written.                                  *)
(***************************************************************************)
StartupInit ==
    /\ pc = "zone"
    /\ inv_next = 1
    /\ known_dns_ids = [k \in Keys |-> None]
    /\ ipv4_cache = NoAddr
    /\ ipv6_cache = NoAddr
    /\ ipv4 = NoAddr
    /\ ipv6 = NoAddr
    /\ attempt = 0
    /\ obs = [f \in {4, 6} |-> NoObs]
    /\ update_v4 = FALSE
    /\ update_v6 = FALSE
    /\ next_sub = 0
    /\ cycle_failed = FALSE
    /\ failure_count = 0
    /\ calls = <<>>
    /\ slept = 0
    /\ last_known = <<NoAddr, NoAddr>>
    /\ failures_at_start = 0
    /\ ProbeIdle
    /\ startup_log = Watch

StartupSpec == StartupInit /\ [][Next]_vars

\* the loop never waits forever: every call has a timeout and the sleep ends
LiveSpec == Spec /\ WF_vars(Next)

(***************************************************************************)
(* Properties                                                              *)
(***************************************************************************)
\* a cycle has ended: the loop is back at its top after a sleep
CycleEnded == pc = "loop" /\ slept # 0
\* the calls of the cycle are complete
CycleDone == pc = "finish" \/ CycleEnded
\* the comparison of the cycle has been made
Decided == pc \in {"update", "finish"} \/ CycleEnded

Written(record_type) ==
    \E i \in 1..Len(calls) : calls[i].payload.record_type = record_type
CallsFor(key) == {i \in 1..Len(calls) : calls[i].key = key}
SomeCallFailed == \E i \in 1..Len(calls) : ~calls[i].success
\* the address this cycle discovered for the family of a record type
Discovered(record_type) == IF record_type = "A" THEN ipv4 ELSE ipv6
LastKnown(record_type) == IF record_type = "A" THEN last_known[1] ELSE last_known[2]
\* the family is dirty in the words of the specification
IsDirty(record_type) ==
    Discovered(record_type) # NoAddr /\ Discovered(record_type) # LastKnown(record_type)

\* in cycles where discovery returns the addresses of the cycle before and every
\* provider call succeeds
StableCycles ==
    /\ pc = "decide" => (ipv4 = ipv4_cache /\ ipv6 = ipv6_cache)
    /\ pc \in {"update", "finish"} => ~SomeCallFailed
FailedWriteFor(key) ==
    CycleEnded /\ \E i \in CallsFor(key) : ~calls[i].success
IssuesWriteFor(key) ==
    /\ pc \in {"update", "finish"}
    /\ \E i \in CallsFor(key) : calls[i].payload.content = Discovered(key[2]).text

\* C1: a failed write for a managed (name, kind) is followed, when every later
\* cycle discovers the same addresses and every provider call succeeds, by a later
\* cycle that issues a write for that (name, kind) with the current address.
C1_FailedWriteIsRetried ==
    \A key \in Keys :
        [](FailedWriteFor(key) /\ []StableCycles => <>IssuesWriteFor(key))

FailedCreateFor(key) ==
    CycleEnded /\ \E i \in CallsFor(key) : calls[i].op = "create" /\ ~calls[i].success
AttemptsCreateFor(key) ==
    pc \in {"update", "finish"} /\ \E i \in CallsFor(key) : calls[i].op = "create"

\* C2: a create that fails for a (name, kind) with no cached id returns
\* (false, None) and leaves the cache unchanged, and a later cycle (the claim: the
\* next one) again attempts a create for that (name, kind), unless the run has
\* reached the bound of the failure counter.
C2_FailedCreateIsRetried ==
    /\ [](\A i \in 1..Len(calls) :
            calls[i].op = "create" /\ ~calls[i].success
            => calls[i].new_id = None /\ known_dns_ids[calls[i].key] = None)
    /\ \A key \in Keys :
        [](FailedCreateFor(key)
           => <>(AttemptsCreateFor(key) \/ failure_count = MaxFailureCount))

\* C3 as stated: of two calls of update_or_create for the same (name, kind), the
\* later one issues update_record, whatever the first call did.
C3_SecondCallAlwaysUpdates ==
    \A i, j \in 1..Len(calls) :
        i < j /\ calls[i].key = calls[j].key => calls[j].op = "update"

\* C3, amended: of two calls of update_or_create for the same (name, kind), the
\* later one issues update_record and not create_record, unless the first call was
\* a create that failed.
C3_SecondCallUpdates ==
    \A i, j \in 1..Len(calls) :
        /\ i < j
        /\ calls[i].key = calls[j].key
        /\ ~(calls[i].op = "create" /\ ~calls[i].success)
        => calls[j].op = "update"

C3_Witness ==
    /\ Len(calls) >= 2
    /\ calls[1].key = calls[2].key
    /\ calls[1].op = "create"
    /\ calls[1].success
    /\ calls[2].op = "update"

\* what C4 concludes: the IPv4 resolution failed with a disagreement error, the
\* cycle issued no write and the failure counter is one more than at its start
DisagreementFailsCycle ==
    /\ obs[4].tag = "ConsensusMismatch"
    /\ ipv4 = NoAddr
    /\ calls = <<>>
    /\ failure_count = failures_at_start + 1

\* C4 as stated: a cycle whose IPv4 endpoints return two different parsed
\* addresses fails the IPv4 resolution with a disagreement error, issues no write
\* and increments the failure counter by one.
C4_DisagreementFailsCycle ==
    CycleEnded /\ obs[4].disagree => DisagreementFailsCycle

\* C4, amended: the same, in the cycles whose IPv6 discovery yields no address
\* and whose deciding IPv4 resolution attempt saw the two different addresses.
C4_DisagreementFailsCycleWithoutV6 ==
    CycleEnded /\ obs[4].disagree /\ ipv6 = NoAddr => DisagreementFailsCycle

C4_Witness ==
    /\ CycleEnded
    /\ obs[4].disagree
    /\ ipv6 = NoAddr
    /\ failures_at_start = 2
    /\ DisagreementFailsCycle

\* C5: a cycle with no failure ends with the failure counter at zero and the base
\* sleep, whatever the counter was at its start: after five failed cycles, and in
\* the cycle after that one.
C5_SuccessResetsCounter ==
    CycleEnded /\ ~cycle_failed => failure_count = 0 /\ slept = sleep_time

C5_Witness ==
    /\ CycleEnded
    /\ ~cycle_failed
    /\ failures_at_start = 5
    /\ failure_count = 0
    /\ slept = 600

\* C6: the sleep that ends a cycle is five times the base interval if and only if
\* the failure counter, after this cycle's increment or reset, exceeds
\* max_failures, and the base interval otherwise; it is extended from the sixth
\* consecutive failed cycle on.
C6_ExtendedSleepAfterMaxFailures ==
    CycleEnded =>
        /\ slept = 3000 <=> failure_count > 5
        /\ slept # 3000 => slept = 600
        /\ slept = 3000 => cycle_failed /\ failures_at_start >= 5

C6_Witness ==
    /\ CycleEnded
    /\ failures_at_start = 5
    /\ failure_count = 6
    /\ slept = 3000

\* C7: in a cycle whose discovered IPv4 address equals the last known one and
\* whose discovered IPv6 address is present and differs from the last known one,
\* every provider write is for an AAAA record.
C7_OnlyAAAAWritten ==
    /\ Decided
    /\ ipv4 = last_known[1]
    /\ ipv6 # NoAddr
    /\ ipv6 # last_known[2]
    => \A i \in 1..Len(calls) :
          calls[i].key[2] = "AAAA" /\ calls[i].payload.record_type = "AAAA"

C7_Witness ==
    /\ CycleEnded
    /\ ipv4 # NoAddr
    /\ ipv4 = last_known[1]
    /\ ipv6 # NoAddr
    /\ ipv6 # last_known[2]
    /\ Len(calls) = Len(subdomains)
    /\ \A i \in 1..Len(calls) : calls[i].payload.record_type = "AAAA"

\* C8: at the end of a cycle a family has been written if and only if its
\* discovered address is present and differs from the last known one; a family
\* whose address is absent is not written, and every call is a create or an update.
C8_WrittenIffDirty ==
    CycleDone =>
        /\ \A t \in RecordTypes : Written(t) <=> IsDirty(t)
        /\ \A i \in 1..Len(calls) : calls[i].op \in {"create", "update"}

C8_Witness ==
    /\ CycleEnded
    /\ last_known[1] # NoAddr
    /\ ipv4 = NoAddr
    /\ ~Written("A")
    /\ Written("AAAA")

\* C9: a cycle whose discovery returns no IPv4 and no IPv6 address is marked
\* failed, increments the failure counter and makes no provider call.
C9_NoAddressFailsCycle ==
    /\ CycleDone /\ ipv4 = NoAddr /\ ipv6 = NoAddr => cycle_failed /\ calls = <<>>
    /\ CycleEnded /\ ipv4 = NoAddr /\ ipv6 = NoAddr
       => failure_count = failures_at_start + 1

C9_Witness ==
    /\ CycleEnded
    /\ ipv4 = NoAddr
    /\ ipv6 = NoAddr
    /\ last_known[1] # NoAddr
    /\ cycle_failed
    /\ failure_count = failures_at_start + 1

\* C10: at the end of the Updating phase update_or_create has been called exactly
\* once for every (managed name, dirty family) pair and for no other pair,
\* whatever the calls returned, and the cycle is marked failed if one of them
\* returned false.
C10_EveryDirtyPairAttempted ==
    CycleDone =>
        /\ \A key \in Keys :
              Cardinality(CallsFor(key)) = IF IsDirty(key[2]) THEN 1 ELSE 0
        /\ SomeCallFailed => cycle_failed

C10_Witness ==
    /\ CycleEnded
    /\ Len(calls) = 2 * Len(subdomains)
    /\ ~calls[1].success
    /\ \A i \in 2..Len(calls) : calls[i].success
    /\ cycle_failed

(***************************************************************************)
(* Properties of one resolution attempt (ResolverSpec)                     *)
(***************************************************************************)
Resolved == pc = "resolved"
\* the endpoints whose answer parses to an address
Parsable(resp) == {i \in 1..Len(resp) : NewIp(resp[i]) # NoAddr}
\* the endpoints whose answer parses to the address a
Returning(resp, a) == {i \in 1..Len(resp) : NewIp(resp[i]) = a}
\* the address at least three endpoints return, if any
AgreedByThree(resp) ==
    {NewIp(resp[i]) : i \in {j \in Parsable(resp) :
                                 Cardinality(Returning(resp, NewIp(resp[j]))) >= 3}}
Least(S) == CHOOSE i \in S : \A j \in S : i <= j
\* the first endpoint with a parsable answer, and the first whose parsable answer
\* differs from that one's
FirstAccepted(resp) == Least(Parsable(resp))
FirstConflict(resp) ==
    Least({i \in Parsable(resp) : NewIp(resp[i]) # NewIp(resp[FirstAccepted(resp)])})

\* C11 as stated: whenever at least 3 endpoints of the list return the identical
\* address, the attempt returns that address.
C11_ThreeAgreeingReturn ==
    Resolved =>
        \A a \in AgreedByThree(q_resp) : q_result.tag = "Ok" /\ q_result.ip = a

\* C11, amended: whenever at least 3 endpoints of the list return the identical
\* address and no endpoint returns a different parsed address, the attempt
\* returns that address.
C11_ThreeAgreeingAloneReturn ==
    (Resolved /\ ~Disagree(q_resp)) =>
        \A a \in AgreedByThree(q_resp) : q_result.tag = "Ok" /\ q_result.ip = a

\* three endpoints agree among failing ones, and the attempt has returned
C11_Witness ==
    /\ Resolved
    /\ Len(q_resp) = 4
    /\ AgreedByThree(q_resp) = {V4("203.0.113.6")}
    /\ q_resp[2] = "send_err"
    /\ q_result.tag = "Ok"

\* C12: whenever two endpoints of the list yield successfully-parsed addresses that
\* differ, the attempt returns no address and fails with ConsensusMismatch naming
\* the first accepted address and the first address that conflicts with it,
\* whatever the endpoints after the conflicting one answer.
C12_DisagreementIsMismatch ==
    (Resolved /\ Disagree(q_resp)) =>
        /\ q_result.tag = "ConsensusMismatch"
        /\ q_result.ip = NoAddr
        /\ q_result.first = NewIp(q_resp[FirstAccepted(q_resp)])
        /\ q_result.conflict = NewIp(q_resp[FirstConflict(q_resp)])

\* the second endpoint conflicts with the first, three endpoints agree, and the
\* attempt has failed naming the two
C12_Witness ==
    /\ Resolved
    /\ Len(q_resp) = 4
    /\ Disagree(q_resp)
    /\ FirstConflict(q_resp) = 2
    /\ Cardinality(Returning(q_resp, V4("203.0.113.5"))) = 3
    /\ q_result.tag = "ConsensusMismatch"
    /\ q_result.first = V4("203.0.113.5")
    /\ q_result.conflict = V6("2001:db8::2")

C19_AbortsAtFirstConflict ==
    Resolved =>
        q_result.queried = IF Disagree(q_resp) THEN FirstConflict(q_resp) ELSE Len(q_resp)

\* the second of four endpoints conflicts with the first: two endpoints were
\* queried, the two after them were not
C19_Witness ==
    /\ Resolved
    /\ Len(q_resp) = 4
    /\ Disagree(q_resp)
    /\ FirstConflict(q_resp) = 2
    /\ NewIp(q_resp[3]) = NewIp(q_resp[1])
    /\ q_result.queried = 2

(***************************************************************************)
(* Properties of the retry wrapper and of the discovery (DiscoverySpec)    *)
(***************************************************************************)
\* query_with_retries has just returned for the family: r_log holds its
\* invocations of the resolver and r_ret what it returned
JustReturned(family) ==
    IF family = 4 THEN pc = "query_v6" /\ attempt = 0 ELSE pc = "decide"
\* the resolver's failures before its first success, for the family
Fails(family) == r_script[family].fails
\* the address the endpoints of the family agree on once the resolver succeeds
AgreedOn(family) ==
    NewIp(r_script[family].last[FirstAccepted(r_script[family].last)])
Services(family) == IF family = 4 THEN IPV4_SERVICES ELSE IPV6_SERVICES

\* C14: when the resolver fails exactly k < retries times and then succeeds, the
\* wrapper returns the address of the success after exactly k + 1 invocations of
\* the resolver, the last of which is the only successful one.
C14_RetryReturnsFirstSuccess ==
    \A family \in {4, 6} :
        (JustReturned(family) /\ Fails(family) < retries) =>
            /\ r_ret = AgreedOn(family)
            /\ Len(r_log) = Fails(family) + 1
            /\ \A i \in 1..Len(r_log) : (r_log[i].tag = "Ok") <=> (i = Fails(family) + 1)

\* the IPv4 resolver failed retries - 1 = 4 times, first by disagreement, then
\* succeeded, and the wrapper has returned the address after 5 invocations
C14_Witness ==
    /\ JustReturned(4)
    /\ Fails(4) = 4
    /\ Len(r_log) = 5
    /\ r_log[1].tag = "ConsensusMismatch"
    /\ r_log[2].tag = "NoIpAvailable"
    /\ r_ret = V4("203.0.113.6")

\* C15: when every invocation of the resolver fails, by disagreement or for want of
\* answers, the wrapper returns no result after exactly `retries` invocations, each
\* of which was handed the same endpoint list in the same order.
C15_RetryGivesUpAfterRetries ==
    \A family \in {4, 6} :
        (JustReturned(family) /\ Fails(family) >= retries) =>
            /\ r_ret = NoAddr
            /\ Len(r_log) = retries
            /\ \A i \in 1..Len(r_log) :
                  r_log[i].tag # "Ok" /\ r_log[i].providers = Services(family)

\* the IPv6 resolver failed five times, by disagreement and for want of answers,
\* and the wrapper has returned nothing
C15_Witness ==
    /\ JustReturned(6)
    /\ Fails(6) = retries
    /\ Len(r_log) = retries
    /\ r_log[1].tag = "NoIpAvailable"
    /\ r_log[retries].tag = "ConsensusMismatch"
    /\ r_ret = NoAddr

\* the result get_supported_public_ips gives for a family, from the behaviour of
\* that family's endpoints alone
Expected(family) ==
    IF Fails(family) < retries /\ AgreedOn(family).ver = family
    THEN AgreedOn(family) ELSE NoAddr

\* C16: the IPv6 result of get_supported_public_ips is determined by the behaviour
\* of the IPv6 endpoints alone and the IPv4 result by that of the IPv4 endpoints
\* alone: whatever the endpoints of the other family do, the result of a family
\* is the same function of its own endpoints' behaviour, so two runs that differ
\* only in the IPv4 endpoints return the same IPv6 result, and conversely.
C16_FamiliesIndependent ==
    pc = "decide" => ipv4 = Expected(4) /\ ipv6 = Expected(6)

\* every IPv4 attempt failed, the IPv6 endpoints agreed at the fourth attempt, and
\* the discovery has returned the IPv6 address alone
C16_Witness ==
    /\ pc = "decide"
    /\ Fails(4) >= retries
    /\ Fails(6) = 3
    /\ ipv4 = NoAddr
    /\ ipv6 = V6("2001:db8::1")

(***************************************************************************)
(* Properties of the loop (Spec, LiveSpec)                                 *)
(***************************************************************************)
\* main is in its loop
InLoop == pc \in {"loop", "query_v4", "query_v6", "decide", "update", "finish"}
\* the model stops counting: one more failed cycle would pass MaxFailureCount
AtBound == pc = "finish" /\ NextFailureCount(cycle_failed, failure_count) > MaxFailureCount

\* C17: once the loop has started, no outcome of a network call ends the process
\* or blocks the loop: main never leaves the loop, always has a next step, and
\* every cycle that has begun reaches its sleep, after which the next one begins.
C17_LoopNeverStops ==
    /\ [][InLoop => InLoop']_vars
    /\ [](InLoop => (ENABLED Next) \/ AtBound)
    /\ (pc = "query_v4") ~> (CycleEnded \/ AtBound)
    /\ CycleEnded ~> (pc = "query_v4")

\* a third failed cycle in a row, in which the IPv6 discovery failed at every
\* attempt and a write failed, has reached its sleep
C17_Witness ==
    /\ CycleEnded
    /\ obs[6].tag # "Ok"
    /\ SomeCallFailed
    /\ failure_count = 3

\* the first cycle after startup has made its calls
FirstCycleDone == pc = "finish" /\ slept = 0
\* the endpoints of the family agreed in the attempt that decided the cycle's result
Agreed(family) == obs[family].tag = "Ok"

\* C18: in the first cycle after startup, when the IPv4 endpoints agree on an
\* address and the IPv6 endpoints agree on an address, every managed name gets
\* exactly one A write and exactly one AAAA write, 2 x the number of names in
\* all, and every payload has TTL 600, proxied false, the record type of the
\* write's family, the name written, and the family's agreed address as content.
C18_FirstCycleWritesEveryRecord ==
    (FirstCycleDone /\ Agreed(4) /\ Agreed(6)) =>
        /\ Len(calls) = 2 * Len(subdomains)
        /\ \A key \in Keys : Cardinality(CallsFor(key)) = 1
        /\ ipv4.ver = 4 /\ ipv6.ver = 6
        /\ \A i \in 1..Len(calls) :
              /\ calls[i].payload.ttl = 600
              /\ calls[i].payload.proxied = FALSE
              /\ calls[i].payload.record_type = calls[i].key[2]
              /\ calls[i].payload.name = calls[i].key[1]
              /\ calls[i].payload.content = Discovered(calls[i].key[2]).text

\* the first cycle, with agreement on 203.0.113.6 (answered with a trailing
\* newline) and on 2001:db8::1, has made its four writes, one of which failed
C18_Witness ==
    /\ FirstCycleDone
    /\ Agreed(4) /\ Agreed(6)
    /\ Len(calls) = 4
    /\ calls[1].payload.content = "203.0.113.6"
    /\ calls[2].payload.content = "2001:db8::1"
    /\ ~calls[3].success

\* C20: once the comparison of a cycle is made, the last known address of each
\* family equals the address the cycle discovered, none included, whether or not
\* the family is dirty and before any write of the cycle.
C20_LastKnownIsDiscovered ==
    Decided => ipv4_cache = ipv4 /\ ipv6_cache = ipv6

\* the comparison is made and no write yet: the IPv6 address known before was not
\* discovered and is forgotten, the IPv4 address changed and is dirty
C20_Witness ==
    /\ pc = "update"
    /\ calls = <<>>
    /\ last_known[2] # NoAddr
    /\ ipv6 = NoAddr
    /\ ipv6_cache = NoAddr
    /\ ~update_v6
    /\ update_v4
    /\ last_known[1] # NoAddr
    /\ ipv4_cache = ipv4

(***************************************************************************)
(* Properties of the record cache after the inventory                      *)
(***************************************************************************)
\* the calls a step adds to the log
NewCalls == {i \in 1..Len(calls') : i > Len(calls)}

\* C21: after the startup inventory the record cache changes only in a step where
\* a create succeeded for a key that had no cached id, and the change is the
\* insertion of that key with the returned id: no key is removed, the id of a
\* cached key never changes, and an update, successful or not, and a failed
\* create leave the cache as it was.
C21_CacheChangesOnlyOnCreate ==
    [][pc \notin {"zone", "inventory"} =>
          \A key \in Keys :
              known_dns_ids'[key] # known_dns_ids[key] =>
                  /\ known_dns_ids[key] = None
                  /\ \E i \in NewCalls :
                        /\ calls'[i].key = key
                        /\ calls'[i].op = "create"
                        /\ calls'[i].success
                        /\ calls'[i].new_id = known_dns_ids'[key]]_vars

\* a successful create has inserted its key, and a successful update of a key
\* cached under another id than the provider's reply carries has left it alone
C21_Witness ==
    /\ pc = "calls"
    /\ Len(calls) = 2
    /\ calls[1].op = "create" /\ calls[1].success
    /\ known_dns_ids[calls[1].key] = calls[1].new_id
    /\ calls[2].op = "update" /\ calls[2].success
    /\ calls[2].key # calls[1].key
    /\ known_dns_ids[calls[2].key] = "rec1"

(***************************************************************************)
(* Properties the code has beyond the stated ones                          *)
(***************************************************************************)
\* this cycle discovered an address of some family, and no family is dirty
Unchanged ==
    /\ ipv4 # NoAddr \/ ipv6 # NoAddr
    /\ ~IsDirty("A")
    /\ ~IsDirty("AAAA")

\* C22: a cycle in which at least one family has an address and neither family is
\* dirty issues no provider call and ends with the failure counter at zero,
\* whatever the counter was at its start, so also when the cycle before it
\* failed to write those addresses.
C22_UnchangedCycleResetsCounter ==
    (CycleEnded /\ Unchanged) => calls = <<>> /\ failure_count = 0

\* two cycles in a row failed, the second by a failed write of the addresses this
\* cycle discovers again; this cycle made no call and has reset the counter
C22_Witness ==
    /\ CycleEnded
    /\ failures_at_start = 2
    /\ ipv4 # NoAddr /\ ipv4 = last_known[1]
    /\ ipv6 # NoAddr /\ ipv6 = last_known[2]
    /\ calls = <<>>
    /\ failure_count = 0

\* the keys of the names whose listing failed at startup
FailedKeys == {key \in Keys : key[1] \in startup_log.failed}

\* C23: a failed listing of a managed name at startup is not fatal.  Only the
\* failure of the zone lookup aborts, before any name is listed; the inventory
\* visits every name whatever the listings return; the cache holds no entry for a
\* name whose listing failed until a write for it is issued; and the first write
\* for each record type of such a name is a create.
C23_FailedListingIsNotFatal ==
    /\ pc = "aborted" => inv_next = 1 /\ startup_log.failed = {}
    /\ pc \notin {"zone", "inventory", "aborted"} => inv_next = Len(subdomains) + 1
    /\ \A key \in FailedKeys :
          /\ startup_log.first_op[key] \in {None, "create"}
          /\ startup_log.first_op[key] = None => known_dns_ids[key] = None

\* the listing of the first name failed and the inventory went on to cache the
\* records of the second; the first cycle has created both records of the first
\* name, one create failing, and updated those of the second
C23_Witness ==
    /\ pc = "finish"
    /\ slept = 0
    /\ startup_log.failed = {FullDomain(subdomains[1])}
    /\ Len(calls) = 4
    /\ calls[1].op = "create" /\ ~calls[1].success
    /\ calls[2].op = "create" /\ calls[2].success
    /\ calls[3].op = "update"
    /\ calls[4].op = "update"
    /\ \A key \in FailedKeys : startup_log.first_op[key] = "create"

====
